---- MODULE Spec2Model ----
(***************************************************************************)
(* The room registry and message router of the WebSocket signaling relay   *)
(* (src/src/sync/ws/server.ts, class WebSocketSignalingServer).            *)
(*                                                                         *)
(* Node runs every handler to completion, so each handler is one action:   *)
(*   Connection        upgrade callback + wss.on('connection')   (77-93)   *)
(*   OnMessage         ws.onmessage                              (96-137)  *)
(*   OnClose           ws.onclose                                (139-153) *)
(*   TransportClosing  the transport starts closing a handle: its          *)
(*                     readyState leaves OPEN before the close event runs  *)
(*                     (the state lines 122 and 210 test for)              *)
(*   Timeout           a setTimeout callback of line 124 fires             *)
(*                                                                         *)
(* A Map is modelled as a function whose DOMAIN is its key set; iteration  *)
(* order is not modelled (rosters and deliveries are compared as sets and  *)
(* counts).  `last` is a history variable: what the latest handler sent    *)
(* and which callbacks it invoked.  Spec is a server with the default      *)
(* manualDelay of 0, SpecDelay one started with a delay.                   *)
(***************************************************************************)
EXTENDS Integers, Sequences, FiniteSets, Bags, TLC

\* ------------------------------------------------------------ bounds
NConn == 3            \* connection handles the transport ever accepts
MaxTargets == 2       \* longest targetPeers array an uplink carries
MaxTimers == 2        \* pending setTimeout deliveries at a time
ConfiguredDelay == 1  \* the manualDelay (ms) of a server started with a delay

\* ------------------------------------------------------------ inputs
Conns == 1..NConn
RoomIds == {"r1", "r2"}
PeerIds == {"a", "b", "server"}
\* The request paths the upgrade handler sees, already split by the regex of
\* line 67 into (roomId, peerId): three peers of r1 and a peer of r2 whose
\* identifier collides with one of r1.
Addresses ==
  { <<"r1", "a">>, <<"r1", "b">>, <<"r1", "server">>, <<"r2", "a">> }

UpdatePeersAction == "UpdatePeers"
ServerId == "server"
UplinkActions == {"offer"}
Payloads == {"x"}
Metadatas == {"m"}

\* uplink.targetPeers as a JavaScript value: undefined, a string (the empty
\* string included: a field of a decoded frame is any string), or an array.
Undefined == [type |-> "undefined"]
Str(s) == [type |-> "string", v |-> s]
Arr(q) == [type |-> "array", v |-> q]
SeqsUpTo(S, n) == UNION { [1..k -> S] : k \in 0..n }
TargetPeersValues ==
  {Undefined} \cup { Str(s) : s \in PeerIds \cup {""} }
              \cup { Arr(q) : q \in SeqsUpTo(PeerIds, MaxTargets) }

Uplinks ==
  [action : UplinkActions, data : Payloads,
   targetPeers : TargetPeersValues, metadata : Metadatas]

\* A frame either decodes to an uplink or makes deserializeUplink throw
\* (Malformed); Unroutable is a frame that decodes to something lines 108-114
\* throw on when they build and serialize the downlink.
Malformed == [type |-> "malformed"]
Unroutable == [type |-> "unroutable"]
Frames ==
  {Malformed, Unroutable} \cup { [type |-> "frame", uplink |-> u] : u \in Uplinks }

NoData == [roomId |-> "", peerId |-> ""]
NoMessage == [action |-> "", data |-> "", peerId |-> "", metadata |-> ""]
NoUplink == [action |-> "", data |-> "", targetPeers |-> Undefined, metadata |-> ""]
\* The metadata of a message built without one (lines 204-208).
NoMetadata == "undefined"

\* ------------------------------------------------------------ state
VARIABLES
  readyState,   \* readyState[ws]: CONNECTING (not accepted yet), OPEN, CLOSING, CLOSED
  data,         \* ws.data: the (roomId, peerId) bound at accept
  rooms,        \* this.rooms: roomId -> (peerId -> ws)
  manualDelay,  \* options.manualDelay
  timers,       \* bag of pending setTimeout deliveries [client, message]
  last          \* effects of the latest handler

vars == <<readyState, data, rooms, manualDelay, timers, last>>

\* Map helpers
MapSet(m, k, v) == [x \in (DOMAIN m) \cup {k} |-> IF x = k THEN v ELSE m[x]]
MapDelete(m, k) == [x \in (DOMAIN m) \ {k} |-> m[x]]
MapValues(m) == { m[k] : k \in DOMAIN m }
EmptyMap == [x \in {} |-> 0]

\* Connection Lifecycle states of the spec (4.2) in terms of the handle:
\* Joined from the connection handler until the close handler has run.
Joined(ws) == readyState[ws] \in {"OPEN", "CLOSING"}
ZeroCount == [c \in Conns |-> 0]

NoEffect ==
  [op |-> "none", ws |-> 0, roomId |-> "", peerId |-> "",
   targetPeers |-> Undefined, decoded |-> FALSE, roomFound |-> FALSE,
   uplink |-> NoUplink, message |-> NoMessage, sent |-> ZeroCount, scheduled |-> ZeroCount,
   closeCalled |-> FALSE, threw |-> FALSE, replaced |-> 0,
   rosterCalls |-> 0, rosterTo |-> {}, roster |-> NoMessage,
   callbacks |-> << >>]

\* ------------------------------------------------------------ registry
\* getPeersInRoom (195-198)
getPeersInRoom(roomId) ==
  IF roomId \in DOMAIN rooms THEN DOMAIN rooms[roomId] ELSE {}

\* getRoomCount (191-193)
getRoomCount == Cardinality(DOMAIN rooms)

\* Lines 87-91: create the room if absent, then roomClients.set(peerId, ws).
JoinRoomKeepFirst(rs, roomId, peerId, ws) ==
  IF roomId \in DOMAIN rs /\ peerId \in DOMAIN rs[roomId]
    THEN rs
    ELSE LET roomClients == IF roomId \in DOMAIN rs THEN rs[roomId] ELSE EmptyMap
         IN  MapSet(rs, roomId, MapSet(roomClients, peerId, ws))
JoinRoom(rs, roomId, peerId, ws) ==
  LET roomClients == IF roomId \in DOMAIN rs THEN rs[roomId] ELSE EmptyMap
  IN  MapSet(rs, roomId, MapSet(roomClients, peerId, ws))

\* Lines 141-147: roomClients.delete(peerId); delete the room when it is empty.
LeaveRoomKeepPeer(rs, roomId, peerId) == rs
LeaveRoomKeepEmpty(rs, roomId, peerId) ==
  IF roomId \in DOMAIN rs
    THEN MapSet(rs, roomId, MapDelete(rs[roomId], peerId))
    ELSE rs
LeaveRoom(rs, roomId, peerId) ==
  IF roomId \in DOMAIN rs
    THEN LET roomClients == MapDelete(rs[roomId], peerId)
         IN  IF Cardinality(DOMAIN roomClients) = 0
               THEN MapDelete(rs, roomId)
               ELSE MapSet(rs, roomId, roomClients)
    ELSE rs

\* sendUpdatePeers (200-215): one roster message to every OPEN handle of the
\* room; nothing when the room is not in the registry.
\* Lines 204-208: the roster message.
RosterMessage(peerIds) ==
  [action |-> UpdatePeersAction, data |-> peerIds,
   peerId |-> ServerId, metadata |-> NoMetadata]

sendUpdatePeersOpenIds(rs, rst, roomId) ==
  IF roomId \in DOMAIN rs
    THEN [calls |-> 1,
          to |-> { c \in MapValues(rs[roomId]) : rst[c] = "OPEN" },
          message |-> RosterMessage({ id \in DOMAIN rs[roomId] :
                                        rst[rs[roomId][id]] = "OPEN" })]
    ELSE [calls |-> 0, to |-> {}, message |-> NoMessage]
sendUpdatePeersNoReadyCheck(rs, rst, roomId) ==
  IF roomId \in DOMAIN rs
    THEN [calls |-> 1, to |-> MapValues(rs[roomId]),
          message |-> RosterMessage(DOMAIN rs[roomId])]
    ELSE [calls |-> 0, to |-> {}, message |-> NoMessage]
sendUpdatePeers(rs, rst, roomId) ==
  IF roomId \in DOMAIN rs
    THEN [calls |-> 1,
          to |-> { c \in MapValues(rs[roomId]) : rst[c] = "OPEN" },
          message |-> RosterMessage(DOMAIN rs[roomId])]
    ELSE [calls |-> 0, to |-> {}, message |-> NoMessage]

\* ------------------------------------------------------------ routing
\* JavaScript truthiness of uplink.targetPeers (the test of line 116):
\* undefined and the empty string are falsy, every array is truthy.
Truthy(targetPeers) ==
  \/ targetPeers.type = "array"
  \/ targetPeers.type = "string" /\ targetPeers.v # ""

\* roomClients.get(id) of line 118, for the sender's room: the handle, or
\* nothing (undefined) when id is no key of the room.
ResolveAnyRoom(rs, roomId, id) ==
  { rs[r][id] : r \in { x \in DOMAIN rs : id \in DOMAIN rs[x] } }
Resolve(rs, roomId, id) ==
  IF id \in DOMAIN rs[roomId] THEN {rs[roomId][id]} ELSE {}

\* Lines 116-119: the targets array, as the number of times each handle
\* occurs in it (undefined entries are dropped by the test of line 122).
Targets(rs, roomId, targetPeers) ==
  IF Truthy(targetPeers)
    THEN LET ids == IF targetPeers.type = "array"
                      THEN targetPeers.v ELSE <<targetPeers.v>>
         IN  [c \in Conns |->
                Cardinality({ i \in DOMAIN ids : c \in Resolve(rs, roomId, ids[i]) })]
    ELSE [c \in Conns |-> IF c \in MapValues(rs[roomId]) THEN 1 ELSE 0]

\* Lines 121-122: a target gets the downlink when it is a handle other than
\* the sender's and its readyState is OPEN.
DeliveriesToSelf(targets, ws, rst) ==
  [c \in Conns |-> IF rst[c] = "OPEN" THEN targets[c] ELSE 0]
Deliveries(targets, ws, rst) ==
  [c \in Conns |-> IF c # ws /\ rst[c] = "OPEN" THEN targets[c] ELSE 0]

\* Lines 108-113: the downlink payload.
Downlink(uplink, senderId) ==
  [action |-> uplink.action, data |-> uplink.data,
   peerId |-> senderId, metadata |-> uplink.metadata]

\* Line 104: ws.close() starts the closing handshake of the handle.
CloseSocketNoop(rst, ws) == rst
CloseSocket(rst, ws) == [rst EXCEPT ![ws] = "CLOSING"]

\* Lines 134-136: the catch block logs the error and leaves the handle alone.
CatchErrorCloses(rst, ws) == [rst EXCEPT ![ws] = "CLOSING"]
CatchError(rst, ws) == rst

\* Line 125: client.send(downlinkMessage) in the timer callback, which tests
\* nothing: the number of messages the handle transmits, none unless OPEN.
TransmitsAlways(rst, client) == 1
TransmitsNothing(rst, client) == 0
Transmits(rst, client) == IF rst[client] = "OPEN" THEN 1 ELSE 0

\* The timers lines 124-126 create: one per delivery.
ScheduledBag(deliveries, message) ==
  LET S == { [client |-> c, message |-> message] : c \in { x \in Conns : deliveries[x] > 0 } }
  IN  [t \in S |-> deliveries[t.client]]

\* ------------------------------------------------------------ actions
Init ==
  /\ readyState = [c \in Conns |-> "CONNECTING"]
  /\ data = [c \in Conns |-> NoData]
  /\ rooms = EmptyMap
  /\ manualDelay = 0
  /\ timers = EmptyBag
  /\ last = NoEffect

\* A server constructed with manualDelay set (line 15, 41).
InitDelay ==
  /\ readyState = [c \in Conns |-> "CONNECTING"]
  /\ data = [c \in Conns |-> NoData]
  /\ rooms = EmptyMap
  /\ manualDelay = ConfiguredDelay
  /\ timers = EmptyBag
  /\ last = NoEffect

\* Lines 77-93: the upgrade callback binds ws.data, the connection handler
\* registers the handle, broadcasts the roster and calls onPeerJoin.
\* Handles are numbered in the order the transport accepts them.
Connection(ws, roomId, peerId) ==
  /\ readyState[ws] = "CONNECTING"
  /\ \A c \in Conns : c < ws => readyState[c] # "CONNECTING"
  /\ LET rs == JoinRoom(rooms, roomId, peerId, ws)
         rst == [readyState EXCEPT ![ws] = "OPEN"]
         roster == sendUpdatePeers(rs, rst, roomId)
     IN  /\ readyState' = rst
         /\ data' = [data EXCEPT ![ws] = [roomId |-> roomId, peerId |-> peerId]]
         /\ rooms' = rs
         /\ last' = [NoEffect EXCEPT
                       !.op = "connection", !.ws = ws,
                       !.roomId = roomId, !.peerId = peerId,
                       !.replaced =
                          IF roomId \in DOMAIN rooms /\ peerId \in DOMAIN rooms[roomId]
                            THEN rooms[roomId][peerId] ELSE 0,
                       !.rosterCalls = roster.calls, !.rosterTo = roster.to,
                       !.roster = roster.message,
                       !.callbacks = << <<"onPeerJoin", peerId, roomId>> >>]
  /\ UNCHANGED <<manualDelay, timers>>

\* Lines 96-137: ws.onmessage.
OnMessage(ws, frame) ==
  /\ Joined(ws)
  /\ LET roomId == data[ws].roomId
         senderId == data[ws].peerId
         base == [NoEffect EXCEPT !.op = "message", !.ws = ws,
                                  !.roomId = roomId, !.peerId = senderId]
     IN  IF frame.type = "malformed"
           THEN \* deserializeUplink throws: caught at line 134
                /\ readyState' = CatchError(readyState, ws)
                /\ last' = [base EXCEPT !.threw = TRUE]
                /\ UNCHANGED timers
           ELSE IF roomId \notin DOMAIN rooms
             THEN \* lines 102-106: ws.close()
                  /\ readyState' = CloseSocket(readyState, ws)
                  /\ last' = [base EXCEPT
                                !.decoded = TRUE,
                                !.targetPeers =
                                   IF frame.type = "frame"
                                     THEN frame.uplink.targetPeers ELSE Undefined,
                                !.closeCalled = TRUE]
                  /\ UNCHANGED timers
           ELSE IF frame.type = "unroutable"
             THEN \* lines 108-114 throw: caught at line 134
                  /\ readyState' = CatchError(readyState, ws)
                  /\ last' = [base EXCEPT !.decoded = TRUE, !.roomFound = TRUE,
                                          !.threw = TRUE]
                  /\ UNCHANGED timers
             ELSE LET message == Downlink(frame.uplink, senderId)
                      targets == Targets(rooms, roomId, frame.uplink.targetPeers)
                      deliveries == Deliveries(targets, ws, readyState)
                      eff == [base EXCEPT !.decoded = TRUE, !.roomFound = TRUE,
                                          !.targetPeers = frame.uplink.targetPeers,
                                          !.uplink = frame.uplink,
                                          !.message = message]
                  IN  IF manualDelay # 0
                        THEN /\ timers' = timers (+) ScheduledBag(deliveries, message)
                             /\ BagCardinality(timers') <= MaxTimers
                             /\ last' = [eff EXCEPT !.scheduled = deliveries]
                             /\ UNCHANGED readyState
                        ELSE /\ last' = [eff EXCEPT !.sent = deliveries]
                             /\ UNCHANGED <<readyState, timers>>
  /\ UNCHANGED <<data, rooms, manualDelay>>

\* Lines 124-126: a scheduled delivery fires; send() on a handle that is no
\* longer OPEN transmits nothing.
Timeout(t) ==
  /\ BagIn(t, timers)
  /\ timers' = timers (-) SetToBag({t})
  /\ last' = [NoEffect EXCEPT
                !.op = "timeout", !.ws = t.client,
                !.roomId = data[t.client].roomId, !.peerId = data[t.client].peerId,
                !.message = t.message,
                !.sent = [c \in Conns |->
                            IF c = t.client THEN Transmits(readyState, c) ELSE 0]]
  /\ UNCHANGED <<readyState, data, rooms, manualDelay>>

\* Lines 139-153: ws.onclose; the handle is CLOSED when the handler runs.
OnClose(ws) ==
  /\ Joined(ws)
  /\ LET peerId == data[ws].peerId
         roomId == data[ws].roomId
         rst == [readyState EXCEPT ![ws] = "CLOSED"]
         base == [NoEffect EXCEPT !.op = "close", !.ws = ws,
                                  !.roomId = roomId, !.peerId = peerId]
     IN  /\ readyState' = rst
         /\ IF peerId # "" /\ roomId \in DOMAIN rooms
              THEN LET rs == LeaveRoom(rooms, roomId, peerId)
                       empty == Cardinality(DOMAIN MapDelete(rooms[roomId], peerId)) = 0
                       roster == sendUpdatePeers(rs, rst, roomId)
                   IN  /\ rooms' = rs
                       /\ last' =
                            IF empty
                              THEN [base EXCEPT !.roomFound = TRUE,
                                     !.callbacks = << <<"onRoomEmpty", roomId>>,
                                                      <<"onPeerLeave", peerId, roomId>> >>]
                              ELSE [base EXCEPT !.roomFound = TRUE,
                                     !.rosterCalls = roster.calls,
                                     !.rosterTo = roster.to,
                                     !.roster = roster.message,
                                     !.callbacks = << <<"onPeerLeave", peerId, roomId>> >>]
              ELSE /\ rooms' = rooms
                   /\ last' = base
  /\ UNCHANGED <<data, manualDelay, timers>>

\* The transport begins to close a handle (a close frame arrived, the socket
\* failed): readyState is CLOSING until the close event is dispatched.
TransportClosing(ws) ==
  /\ readyState[ws] = "OPEN"
  /\ readyState' = [readyState EXCEPT ![ws] = "CLOSING"]
  /\ last' = [NoEffect EXCEPT !.op = "closing", !.ws = ws,
                              !.roomId = data[ws].roomId, !.peerId = data[ws].peerId]
  /\ UNCHANGED <<data, rooms, manualDelay, timers>>

Next ==
  \/ \E ws \in Conns, addr \in Addresses : Connection(ws, addr[1], addr[2])
  \/ \E ws \in Conns, frame \in Frames : OnMessage(ws, frame)
  \/ \E ws \in Conns : OnClose(ws)
  \/ \E ws \in Conns : TransportClosing(ws)

Spec == Init /\ [][Next]_vars

\* The delayed server is driven with peers of one room that send a broadcast
\* or a message targeted at one peer; every delivery goes through a timer.
DelayAddresses == { addr \in Addresses : addr[1] = "r1" }
DelayFrames ==
  { f \in Frames :
      f.type = "frame" /\ f.uplink.targetPeers \in {Undefined, Str("b")} }
\* Every timer the delayed server can hold.
Timers ==
  [client : Conns,
   message : { Downlink(u, id) : u \in Uplinks, id \in PeerIds }]

NextDelay ==
  \/ \E ws \in Conns, addr \in DelayAddresses : Connection(ws, addr[1], addr[2])
  \/ \E ws \in Conns, frame \in DelayFrames : OnMessage(ws, frame)
  \/ \E ws \in Conns : OnClose(ws)
  \/ \E ws \in Conns : TransportClosing(ws)
  \/ \E t \in Timers : Timeout(t)

SpecDelay == InitDelay /\ [][NextDelay]_vars

\* Node runs the callback of every timer it holds: a scheduled delivery that
\* stays pending is eventually fired.
SpecDelayFair == SpecDelay /\ \A t \in Timers : WF_vars(Timeout(t))

\* ------------------------------------------------------------ vocabulary
\* The connections that joined roomId and have not left: their close handler
\* has not run yet.
JoinedIn(roomId) == { c \in Conns : Joined(c) /\ data[c].roomId = roomId }
JoinedPeers(roomId) == { data[c].peerId : c \in JoinedIn(roomId) }
\* The handles the registry holds for roomId, and the OPEN ones among them.
RoomHandles(roomId) ==
  IF roomId \in DOMAIN rooms THEN MapValues(rooms[roomId]) ELSE {}
OpenHandles(roomId) == { c \in RoomHandles(roomId) : readyState[c] = "OPEN" }
\* The handles the latest handler sent a routed downlink to.
Receivers == { c \in Conns : last.sent[c] > 0 }
\* How often the latest handler invoked a callback with these arguments.
CallCount(call) ==
  Cardinality({ i \in DOMAIN last.callbacks : last.callbacks[i] = call })
\* The identifiers a targetPeers value names.
Named(targetPeers) ==
  IF targetPeers.type = "array"
    THEN { targetPeers.v[i] : i \in DOMAIN targetPeers.v }
    ELSE IF targetPeers.type = "string" THEN {targetPeers.v} ELSE {}
Routed == last.op = "message" /\ last.decoded /\ ~last.threw

\* ------------------------------------------------------------ claims

\* C1: for every room, the registry's member set equals the set of peers that
\* have joined and not yet left (two connections may use the same roomId and
\* peerId), and the room entry exists iff that set is non-empty.
C1_MembersAreJoinedPeers ==
  \A r \in RoomIds :
    /\ getPeersInRoom(r) = JoinedPeers(r)
    /\ (r \in DOMAIN rooms) <=> (JoinedPeers(r) # {})

\* C2: every room present in the registry has at least one member; no step
\* leaves an empty room map in the registry.
C2_NoEmptyRoom ==
  \A r \in DOMAIN rooms : DOMAIN rooms[r] # {}

\* C2 witness: a close handler has just removed a room's last member, and
\* the room with it, while another room stays registered.
C2_LastMemberLeft ==
  /\ last.op = "close" /\ last.roomFound
  /\ CallCount(<<"onRoomEmpty", last.roomId>>) = 1
  /\ last.roomId \notin DOMAIN rooms
  /\ DOMAIN rooms # {}

\* C3 as stated: a join triggers exactly one roster broadcast, which reaches
\* every member present in the room at that moment, the joiner included.
C3_JoinRosterReachesEveryMember ==
  last.op = "connection" =>
    /\ last.rosterCalls = 1
    /\ last.rosterTo = RoomHandles(last.roomId)

\* C3 amended: a join triggers exactly one roster broadcast, which reaches
\* every member of the room whose handle is OPEN at that moment; the joiner
\* is one of them.
C3_JoinRosterReachesOpenMembers ==
  last.op = "connection" =>
    /\ last.rosterCalls = 1
    /\ last.rosterTo = OpenHandles(last.roomId)
    /\ last.ws \in last.rosterTo

\* C3 witness: a join into a room that holds an OPEN member and a CLOSING
\* one; the roster went to the joiner and to the OPEN member.
C3_JoinWithClosingMember ==
  /\ last.op = "connection"
  /\ Cardinality(last.rosterTo) = 2
  /\ \E c \in RoomHandles(last.roomId) : readyState[c] = "CLOSING"

\* C4: a leave that does not empty the room (a peer that joined it has not
\* left) triggers exactly one roster broadcast to the remaining members, a
\* handle that is not ready being skipped; a leave that empties the room
\* triggers no roster broadcast and exactly one room-empty notification, and
\* the members query for the room then returns empty.
C4_LeaveNotifies ==
  last.op = "close" =>
    LET remaining == JoinedIn(last.roomId)
    IN  IF remaining # {}
          THEN /\ last.rosterCalls = 1
               /\ last.rosterTo = { c \in remaining : readyState[c] = "OPEN" }
               /\ CallCount(<<"onRoomEmpty", last.roomId>>) = 0
          ELSE /\ last.rosterCalls = 0
               /\ CallCount(<<"onRoomEmpty", last.roomId>>) = 1
               /\ getPeersInRoom(last.roomId) = {}

\* C5 as stated: an uplink without targetPeers is delivered to every member
\* of the sender's room except the sender, and to no one else.
C5_BroadcastReachesEveryMember ==
  (Routed /\ last.targetPeers = Undefined) =>
    Receivers = RoomHandles(last.roomId) \ {last.ws}

\* C5 amended: an uplink without targetPeers is delivered to every member of
\* the sender's room whose handle is OPEN, except the sender, and to no one
\* else.
C5_BroadcastReachesOpenMembers ==
  (Routed /\ last.targetPeers = Undefined) =>
    Receivers = OpenHandles(last.roomId) \ {last.ws}

\* C5 witness: a broadcast was delivered in the sender's room while a peer
\* of another room was connected.
C5_BroadcastDelivered ==
  /\ Routed /\ last.targetPeers = Undefined
  /\ Receivers # {}
  /\ \E c \in Conns : Joined(c) /\ data[c].roomId # last.roomId

\* C6: for an uplink whose targetPeers is one identifier or a list of
\* identifiers, the connections that receive the downlink are exactly the
\* named identifiers that are members of the sender's room, the sender
\* excepted (a handle that is not ready being skipped); every other member
\* receives nothing.
C6_TargetedReachesNamedOnly ==
  (Routed /\ last.targetPeers.type \in {"string", "array"}) =>
    Receivers =
      { c \in OpenHandles(last.roomId) \ {last.ws} :
          data[c].peerId \in Named(last.targetPeers) }

\* C7: a message sent by a peer of room R is delivered to, or scheduled for,
\* no connection bound to another room, in every targeting mode and also
\* when both rooms use the same peer identifiers.
C7_RoomIsolation ==
  last.op = "message" =>
    \A c \in Conns :
      (last.sent[c] > 0 \/ last.scheduled[c] > 0) => data[c].roomId = last.roomId

\* C7 witness: a message targeted at an identifier was delivered in the
\* sender's room while an OPEN connection of another room bears that
\* identifier.
C7_CollidingIdInOtherRoom ==
  /\ Routed /\ last.targetPeers.type = "string"
  /\ Receivers # {}
  /\ \E c \in Conns :
       /\ readyState[c] = "OPEN"
       /\ data[c].roomId # last.roomId
       /\ data[c].peerId = last.targetPeers.v

\* C8: an uplink targeted at an identifier that is no member of the sender's
\* room is delivered to no one, and the sender's connection is not closed,
\* whatever string the identifier is.
C8_NonMemberTargetReachesNoOne ==
  (/\ Routed /\ last.roomFound
   /\ last.targetPeers.type = "string"
   /\ last.targetPeers.v \notin getPeersInRoom(last.roomId)) =>
    /\ Receivers = {}
    /\ ~last.closeCalled
    /\ readyState[last.ws] # "CLOSED"

\* C9: for one uplink, each connection receives the derived downlink at most
\* once, whatever targetPeers is (a list may name a peer more than once).
C9_AtMostOncePerTarget ==
  last.op = "message" =>
    \A c \in Conns : last.sent[c] <= 1 /\ last.scheduled[c] <= 1

\* C10: the close of a Joined connection invokes the leave callback exactly
\* once, with the (peerId, roomId) bound at connect time, whatever the
\* registry holds at that moment.
C10_LeaveCallbackAlways ==
  last.op = "close" =>
    /\ CallCount(<<"onPeerLeave", data[last.ws].peerId, data[last.ws].roomId>>) = 1
    /\ Cardinality({ i \in DOMAIN last.callbacks :
                       last.callbacks[i][1] = "onPeerLeave" }) = 1

\* C11: a join under a (roomId, peerId) that already has a handle is not
\* rejected: it is announced like any join, the registry then resolves
\* (roomId, peerId) to the new handle, the member list holds peerId, and the
\* join leaves the old handle's readyState as it was.
C11_DuplicateJoinLastWriterWins ==
  [][(/\ last'.op = "connection"
      /\ last'.roomId \in DOMAIN rooms
      /\ last'.peerId \in DOMAIN rooms[last'.roomId]) =>
       LET old == rooms[last'.roomId][last'.peerId]
       IN  /\ last'.callbacks = << <<"onPeerJoin", last'.peerId, last'.roomId>> >>
           /\ last'.rosterCalls = 1
           /\ rooms'[last'.roomId][last'.peerId] = last'.ws
           /\ last'.peerId \in DOMAIN rooms'[last'.roomId]
           /\ DOMAIN rooms'[last'.roomId] = DOMAIN rooms[last'.roomId]
           /\ old # last'.ws
           /\ readyState'[old] = readyState[old]]_vars

\* C11 witness: a join has just replaced the OPEN handle of another
\* connection, which is still OPEN.
C11_HandleReplaced ==
  /\ last.op = "connection"
  /\ last.replaced # 0
  /\ readyState[last.replaced] = "OPEN"
  /\ rooms[last.roomId][last.peerId] = last.ws

\* C12: when a decoded uplink is processed and the sender's room is not in
\* the registry, close() is called on the sender's handle and the message is
\* dropped: nothing is sent or scheduled and the registry is unchanged.
C12_RoomMissingClosesSender ==
  [][(/\ last'.op = "message" /\ last'.decoded
      /\ last'.roomId \notin DOMAIN rooms) =>
       /\ last'.closeCalled
       /\ readyState'[last'.ws] = "CLOSING"
       /\ last'.sent = ZeroCount /\ last'.scheduled = ZeroCount
       /\ timers' = timers
       /\ rooms' = rooms]_vars

\* C12 witness: an OPEN connection whose room had been deleted sent an
\* uplink and is now CLOSING.
C12_SenderClosed ==
  /\ last.op = "message" /\ last.decoded /\ last.closeCalled
  /\ ~last.roomFound
  /\ readyState[last.ws] = "CLOSING"
  /\ rooms # EmptyMap

\* C13: a message whose decoding or routing throws is dropped without
\* effect: nothing is sent or scheduled, and registry, bindings, timers and
\* every readyState (the sender's included) stay as they were, so that every
\* later message is routed from the state the bad message found.
C13_BadMessageDropped ==
  [][(last'.op = "message" /\ last'.threw) =>
       /\ last'.sent = ZeroCount /\ last'.scheduled = ZeroCount
       /\ ~last'.closeCalled
       /\ UNCHANGED <<readyState, data, rooms, manualDelay, timers>>]_vars

\* C13 witness: a frame that decoded but could not be routed was dropped by
\* an OPEN sender in a room with another OPEN member.
C13_UnroutableDropped ==
  /\ last.op = "message" /\ last.threw /\ last.decoded
  /\ readyState[last.ws] = "OPEN"
  /\ OpenHandles(last.roomId) \ {last.ws} # {}

\* C14: the connection that sent an uplink never receives the downlink
\* derived from it, in any targeting mode, also when targetPeers names the
\* sender's own identifier.
C14_SenderExcluded ==
  last.op = "message" => last.sent[last.ws] = 0 /\ last.scheduled[last.ws] = 0

\* C14 witness: a registered OPEN sender named its own identifier and
\* another member in targetPeers; the other member received the downlink.
C14_SenderNamedItself ==
  /\ Routed /\ last.roomFound
  /\ last.peerId \in Named(last.targetPeers)
  /\ last.peerId \in DOMAIN rooms[last.roomId]
  /\ rooms[last.roomId][last.peerId] = last.ws
  /\ readyState[last.ws] = "OPEN"
  /\ Receivers # {}

\* C15: every downlink a connection receives for a routed uplink carries
\* the sender's bound identifier as peerId and the uplink's action, data and
\* metadata, and, not being a roster message, a peerId other than "server".
C15_SenderStamped ==
  (Routed /\ last.roomFound /\ Receivers # {}) =>
    /\ last.message.peerId = data[last.ws].peerId
    /\ last.message.action = last.uplink.action
    /\ last.message.data = last.uplink.data
    /\ last.message.metadata = last.uplink.metadata
    /\ last.message.peerId # ServerId

\* C16: a roster message carries exactly the peer identifiers of the room's
\* registry entry at the moment of the broadcast; the roster of a join holds
\* the joiner, the roster of a leave does not hold the peer that left.
C16_RosterIsRegistryEntry ==
  last.rosterCalls > 0 =>
    /\ last.roster = RosterMessage(getPeersInRoom(last.roomId))
    /\ last.op = "connection" => last.peerId \in last.roster.data
    /\ last.op = "close" => last.peerId \notin last.roster.data

\* C16 witness: the roster of a leave went to an OPEN member of a room that
\* also holds a CLOSING member.
C16_LeaveRosterSent ==
  /\ last.op = "close" /\ last.rosterCalls = 1
  /\ last.rosterTo # {}
  /\ \E c \in RoomHandles(last.roomId) : readyState[c] = "CLOSING"

\* C17: when a scheduled delivery fires for a target whose handle has left
\* (is CLOSING or CLOSED), nothing is transmitted and no one is told: no
\* callback, no roster, no close; every readyState (the sender's included),
\* the registry and every other pending delivery stay as they were.
C17_LeftTargetMisses ==
  [][(last'.op = "timeout" /\ readyState[last'.ws] # "OPEN") =>
       LET fired == [client |-> last'.ws, message |-> last'.message]
       IN  /\ last'.sent = ZeroCount
           /\ last'.callbacks = <<>> /\ last'.rosterCalls = 0
           /\ ~last'.closeCalled /\ ~last'.threw
           /\ UNCHANGED <<readyState, data, rooms>>
           /\ CopiesIn(fired, timers') = CopiesIn(fired, timers) - 1
           /\ \A u \in Timers :
                 u # fired => CopiesIn(u, timers') = CopiesIn(u, timers)]_vars

\* C17 witness: the delivery to a CLOSED target has just fired while the
\* delivery of the same message to an OPEN target is still pending and a
\* connection of the sender is OPEN.
C17_TargetLeftBeforeFiring ==
  /\ last.op = "timeout" /\ readyState[last.ws] = "CLOSED"
  /\ last.sent = ZeroCount
  /\ \E u \in BagToSet(timers) :
        /\ u.message = last.message /\ u.client # last.ws
        /\ readyState[u.client] = "OPEN"
  /\ \E c \in Conns :
        /\ readyState[c] = "OPEN"
        /\ data[c] = [roomId |-> last.roomId, peerId |-> last.message.peerId]

\* C18: every scheduled delivery eventually fires, whatever happens to the
\* sender and its room in between, and when it fires the target receives the
\* message if its handle is OPEN.
C18_ScheduledDeliveryFires ==
  \A t \in Timers :
    BagIn(t, timers) ~>
      (/\ last.op = "timeout" /\ last.ws = t.client /\ last.message = t.message
       /\ readyState[t.client] = "OPEN" => last.sent[t.client] = 1)

\* C18 witness: a delivery has just reached an OPEN target although every
\* connection bound to the sender's identifier in that room is CLOSED and the
\* room is gone from the registry.
C18_DeliveredAfterSenderLeft ==
  /\ last.op = "timeout" /\ last.sent[last.ws] = 1
  /\ readyState[last.ws] = "OPEN"
  /\ last.roomId \notin DOMAIN rooms
  /\ \A c \in Conns :
        data[c] = [roomId |-> last.roomId, peerId |-> last.message.peerId]
          => readyState[c] = "CLOSED"
  /\ \E c \in Conns :
        data[c] = [roomId |-> last.roomId, peerId |-> last.message.peerId]

\* C19: every handle the registry stores belongs to a connection whose close
\* handler has not run and which is bound to the roomId and peerId it is
\* stored under.
C19_NoStaleHandle ==
  \A r \in DOMAIN rooms : \A p \in DOMAIN rooms[r] :
    /\ Joined(rooms[r][p])
    /\ data[rooms[r][p]] = [roomId |-> r, peerId |-> p]

\* C19 witness: after a duplicate join, the replaced connection has closed
\* and another member is still registered.
C19_ReplacedHandleClosed ==
  /\ last.op = "close" /\ last.roomFound
  /\ \E c \in Conns : c # last.ws /\ Joined(c) /\ data[c] = data[last.ws]
  /\ RoomHandles(last.roomId) # {}

\* C20: once every connection that joined has closed, the registry holds no
\* room and the room count is 0.
C20_NoLeakedRoom ==
  (\A c \in Conns : ~Joined(c)) => (DOMAIN rooms = {} /\ getRoomCount = 0)

\* C20 witness: every accepted connection has closed, two of them having
\* used the same roomId and peerId, and the last step was a close.
C20_AllClosed ==
  /\ last.op = "close"
  /\ \A c \in Conns : readyState[c] = "CLOSED"
  /\ \E c, d \in Conns : c # d /\ data[c] = data[d]

====
